---- MODULE Spec2Model ----
(***************************************************************************)
(* Model of cma/interfaces.py: the generic driver OOOptimizer.optimize     *)
(* with its helpers _prepare_callback_list and _force_final_logging, the   *)
(* abstract OOOptimizer.tell and BaseDataLogger.add; and the default       *)
(* StatisticalModelSamplerWithZeroMeanBaseClass.parameters with its cache. *)
(*                                                                         *)
(* One call of optimize is followed statement by statement; pc names the   *)
(* statement about to run.  The concrete optimizer (ask, stop, an          *)
(* overriding tell), the objective function, the callbacks and the logger  *)
(* are the environment: their results are chosen nondeterministically.     *)
(***************************************************************************)
EXTENDS Integers, Sequences, FiniteSets, TLC

\* ---------------------------------------------------------------- bounds
MaxFun == 3          \* maxfun ranges over 0..MaxFun and the default
MaxIterations == 2   \* iterations ranges over None and 0..MaxIterations
MaxMinIter == 2      \* min_iterations ranges over 0..MaxMinIter
MaxBatch == 2        \* ask() returns 1..MaxBatch candidates
MaxCiter == 3        \* iterations followed in one call of optimize
MaxDim == 2          \* dimension of the sampling model ranges over 1..MaxDim
MaxLen == 3          \* weights sequences have 1..MaxLen entries
MaxK == 3            \* stop() thresholds countiter >= K range over 1..MaxK

\* ------------------------------------------------------- python values
\* iterations=None, the default of optimize
None == -1
\* np.inf, and the default maxfun=1e99: larger than any counter
Infinity == -2

\* a >= b of Python numbers, b possibly np.inf / 1e99
Geq(a, b) == IF b = Infinity THEN FALSE ELSE a >= b

\* bool(x) of a Python number: True == 1, False == 0
Bool(x) == IF x = 0 THEN 0 ELSE 1

\* ---------------------------------------------------------- environment
\* candidate solutions, reduced to one coordinate: the i-th candidate of
\* a batch is the point i
Candidates == 1..MaxBatch

\* the objective function used by the caller: f(x) = x^2
objective_fct(x) == x * x

\* batches ask() can return: the first n candidates, for every size n
Batches == {[i \in 1..n |-> i] : n \in 1..MaxBatch}

\* stop() of the concrete optimizer: "free" returns an empty or a
\* non-empty dictionary at will, "always" a non-empty one at every call,
\* "countiter" a non-empty one exactly when countiter >= K
StopModes == {"free", "always", "countiter"}

\* the thresholds K of a stop mode (0 where the mode has none)
Thresholds(mode) == IF mode = "countiter" THEN 1..MaxK ELSE {0}

\* whether stop() returns a non-empty dictionary: the possible results
StopResults(mode, k, ci) ==
    IF mode = "always" THEN {TRUE}
    ELSE IF mode = "countiter" THEN {ci >= k}
    ELSE BOOLEAN

\* ask() of the concrete optimizer: "free" returns any batch, "pair" the
\* same two candidates at every call
AskModes == {"free", "pair"}

\* the batches ask() can return
AskResults(mode) == IF mode = "pair" THEN {<<1, 2>>} ELSE Batches

\* The logger attribute of the optimizer instance.
\*   absent : no attribute `logger' on the instance
\*   None   : self.logger = None
\*   noAdd  : an object without a method add
\*   noKw   : add(optim) does not accept the keyword modulo
\*   ok     : add(optim, modulo=...) records a data point
\*   base   : a BaseDataLogger, whose add raises NotImplementedError
\* hasModulo/modulo: the logger's attribute `modulo', when it has one
Loggers ==
    {[kind |-> k, hasModulo |-> FALSE, modulo |-> 0] :
        k \in {"absent", "None", "noAdd", "noKw", "ok", "base"}}
    \cup {[kind |-> "ok", hasModulo |-> TRUE, modulo |-> m] : m \in {0, 2}}

\* The callback argument of optimize.
\*   None     : callback=None (the default)
\*   callable : a single callable, here a
\*   iterable : a list of entries
\*   other    : neither callable nor iterable, e.g. callback=5
\* entries: "a", "b" callables, "None" the value None, "five" the int 5
CallbackArgs ==
    {[kind |-> "None", items |-> <<>>],
     [kind |-> "callable", items |-> <<"a">>],
     [kind |-> "iterable", items |-> <<"a", "b">>],
     [kind |-> "iterable", items |-> <<"a", "None", "b">>],
     [kind |-> "iterable", items |-> <<"a", "five">>],
     [kind |-> "other", items |-> <<>>]}

\* callable(c) for the entries above and the bound method logger.add
Callable(c) == c \in {"a", "b", "logger.add"}

\* getattr(self, 'logger') raises AttributeError
LoggerAttrMissing(lg) == lg.kind = "absent"

\* self.logger.add raises AttributeError
LoggerAddMissing(lg) == lg.kind \in {"absent", "None", "noAdd"}

\* ------------------------------------------------ _prepare_callback_list
\* for c in callback: if not callable(c): raise ValueError
RECURSIVE AllCallable(_)
AllCallable(s) ==
    IF s = <<>> THEN TRUE
    ELSE Callable(Head(s)) /\ AllCallable(Tail(s))

\* the value of `callback' after lines 201-204
CallbackAsList(cb) ==
    IF cb.kind = "None" THEN <<>> ELSE cb.items

\* _prepare_callback_list with logger.add put in front of the caller's
\* callbacks instead of behind them
PrepareCallbackListLoggerFirst(cb, lg) ==
    IF cb.kind = "other"
    THEN [exc |-> "TypeError", list |-> <<>>]
    ELSE LET l0 == CallbackAsList(cb)
             l1 == IF LoggerAddMissing(lg) THEN l0
                   ELSE <<"logger.add">> \o l0
         IN IF AllCallable(l1)
            THEN [exc |-> "none", list |-> l1]
            ELSE [exc |-> "ValueError", list |-> <<>>]

\* Result of _prepare_callback_list(callback): the exception it raises
\* ("none" when it returns) and the list it returns.
\*  - list(callback) is evaluated before self.logger.add; for an argument
\*    that is not iterable it raises TypeError, which `except
\*    AttributeError' does not catch;
\*  - a missing logger or a logger without add leaves the list as it is;
\*  - every element, None included, must be callable.
PrepareCallbackList(cb, lg) ==
    IF cb.kind = "other"
    THEN [exc |-> "TypeError", list |-> <<>>]
    ELSE LET l0 == CallbackAsList(cb)
             l1 == IF LoggerAddMissing(lg) THEN l0
                   ELSE Append(l0, "logger.add")
         IN IF AllCallable(l1)
            THEN [exc |-> "none", list |-> l1]
            ELSE [exc |-> "ValueError", list |-> <<>>]

\* ------------------------------------------------------------------ state
VARIABLES
    pc,              \* statement of optimize about to run
    maxfun, iterations, min_iterations, verb_disp, callbackArg,
    logger,          \* the instance's logger attribute
    tellKind,        \* "base": OOOptimizer.tell, "override": a subclass's
    stopMode,        \* how the optimizer's stop() behaves
    stopK,           \* the threshold K of stop mode "countiter"
    askMode,         \* how the optimizer's ask() behaves
    callback,        \* the prepared callback list
    cbi,             \* position in `for f in callback'
    citer, cevals,   \* the loop's counters
    X, fitvals,      \* the batch and its fitness values
    countiter,       \* self.countiter
    stopped,         \* what the last stop() returned: non-empty or not
    exc, excAt,      \* exception leaving optimize, and where it was raised
    exitPath,        \* how the loop ended
    trace,           \* calls made in the current iteration, in order
    tellsOk,         \* tell invocations that returned normally
    nevals,          \* objective_fct calls made
    forceCalls,      \* invocations of _force_final_logging
    flushAdds,       \* logger.add(self, modulo=m) calls that returned
    flushModulo,     \* m of the last such call attempted
    finalDisps,      \* disp(1) calls of the final output
    stopCalls,       \* calls of stop()
    askCalls,        \* calls of ask()
    tellCalls,       \* calls of tell(), failed ones included
    toldX, toldF     \* the arguments of the last call of tell()
\* the sampling model
VARIABLES
    dimension,       \* self.dimension
    sWeights,        \* self.weights; <<>> while the attribute is not set
    sParams,         \* self._parameters
    sArg,            \* the argument of the last call parameters(weights)
    sSame,           \* whether self.weights was that very sequence then
    sRet,            \* the mapping that call returned
    sExc,            \* the exception that call raised, or "none"
    sComputed        \* whether that call assigned self._parameters
sampler == <<dimension, sWeights, sParams, sArg, sSame, sRet, sExc,
             sComputed>>

vars == <<sampler, pc, maxfun, iterations, min_iterations, verb_disp, callbackArg,
          logger, tellKind, stopMode, callback, cbi, citer, cevals, X, fitvals,
          countiter, stopped, exc, excAt, exitPath, trace, tellsOk, nevals,
          forceCalls, flushAdds, flushModulo, finalDisps, stopK, askMode,
          stopCalls, askCalls, tellCalls, toldX, toldF>>

calls == <<stopCalls, askCalls, tellCalls, toldX, toldF>>
args == <<maxfun, iterations, min_iterations, verb_disp, callbackArg>>
optimizer == <<logger, tellKind, stopMode, stopK, askMode>>

\* self._parameters while no call of parameters has assigned it
NoParams == [set |-> FALSE, c1 |-> <<0, 1>>, cmu |-> <<0, 1>>, of |-> <<>>]

\* a sampling model on which parameters has not been called
SamplerFresh ==
    /\ sWeights = <<>>
    /\ sParams = NoParams
    /\ sArg = <<>>
    /\ sSame = FALSE
    /\ sRet = NoParams
    /\ sExc = "none"
    /\ sComputed = FALSE

\* a concrete optimizer whose initialize() set countiter = 0, about to
\* have optimize called
Init ==
    /\ dimension = 1
    /\ SamplerFresh
    /\ pc = "call"
    /\ maxfun \in (0..MaxFun) \cup {Infinity}
    /\ iterations \in {None} \cup (0..MaxIterations)
    /\ min_iterations \in 0..MaxMinIter
    /\ verb_disp \in {0, 1}
    /\ callbackArg \in CallbackArgs
    /\ logger \in Loggers
    /\ tellKind \in {"base", "override"}
    /\ stopMode \in StopModes
    /\ stopK \in Thresholds(stopMode)
    /\ askMode \in AskModes
    /\ callback = <<>>
    /\ cbi = 1
    /\ citer = 0
    /\ cevals = 0
    /\ X = <<>>
    /\ fitvals = <<>>
    /\ countiter = 0
    /\ stopped = FALSE
    /\ exc = "none"
    /\ excAt = "none"
    /\ exitPath = "none"
    /\ trace = <<>>
    /\ tellsOk = 0
    /\ nevals = 0
    /\ forceCalls = 0
    /\ flushAdds = 0
    /\ flushModulo = None
    /\ finalDisps = 0
    /\ stopCalls = 0
    /\ askCalls = 0
    /\ tellCalls = 0
    /\ toldX = <<>>
    /\ toldF = <<>>

\* an exception leaves optimize
Raise(e, where) ==
    /\ pc' = "raised"
    /\ exc' = e
    /\ excAt' = where

\* the assertion left out
PreconditionUnchecked(its, mi) == TRUE

\* line 165: assert iterations is None or min_iterations <= iterations
Precondition(its, mi) == its = None \/ mi <= its

\* lines 165-169: the assertion, the callback list, the counters
Setup ==
    /\ pc = "call"
    /\ IF ~Precondition(iterations, min_iterations)
       THEN /\ Raise("AssertionError", "assert")
            /\ UNCHANGED callback
       ELSE LET r == PrepareCallbackList(callbackArg, logger)
            IN IF r.exc # "none"
               THEN /\ Raise(r.exc, "_prepare_callback_list")
                    /\ UNCHANGED callback
               ELSE /\ callback' = r.list
                    /\ pc' = "while"
                    /\ UNCHANGED <<exc, excAt>>
    /\ UNCHANGED calls
    /\ UNCHANGED <<sampler, args, optimizer, cbi, citer, cevals, X, fitvals,
                   countiter, stopped, exitPath, trace, tellsOk, nevals,
                   forceCalls, flushAdds, flushModulo, finalDisps>>

\* the loop condition without the min_iterations floor: not self.stop()
LoopConditionNoFloor(stopNonEmpty, ci, mi) == ~stopNonEmpty

\* the loop condition with `and' in place of `or'
LoopConditionAnd(stopNonEmpty, ci, mi) == ~stopNonEmpty /\ ci < mi

\* line 170: not self.stop() or citer < min_iterations
LoopCondition(stopNonEmpty, ci, mi) == ~stopNonEmpty \/ ci < mi

\* line 171-172: iterations if iterations else np.inf
IterationsLimit(its) == IF its # None /\ its # 0 THEN its ELSE Infinity

\* line 171-172: cevals >= maxfun or citer >= (iterations if ... else np.inf)
BudgetReached(ce, mf, ci, its) ==
    Geq(ce, mf) \/ Geq(ci, IterationsLimit(its))

\* line 170: stop() is called and the loop condition evaluated; when it
\* is false the loop is left for the final output
WhileTest ==
    /\ pc = "while"
    /\ \E s \in StopResults(stopMode, stopK, countiter) :
         /\ stopped' = s
         /\ IF LoopCondition(s, citer, min_iterations)
            THEN /\ pc' = "budget"
                 /\ UNCHANGED exitPath
            ELSE /\ pc' = "final"
                 /\ exitPath' = "stop"
    /\ stopCalls' = stopCalls + 1
    /\ UNCHANGED <<askCalls, tellCalls, toldX, toldF>>
    /\ UNCHANGED <<sampler, args, optimizer, callback, cbi, citer, cevals, X,
                   fitvals, countiter, exc, excAt, trace, tellsOk, nevals,
                   forceCalls, flushAdds, flushModulo, finalDisps>>

\* lines 171-174: a reached budget returns self at once, else the
\* iteration starts
BudgetCheck ==
    /\ pc = "budget"
    /\ IF BudgetReached(cevals, maxfun, citer, iterations)
       THEN /\ pc' = "returned"
            /\ exitPath' = IF Geq(cevals, maxfun) THEN "maxfun"
                           ELSE "iterations"
            /\ UNCHANGED <<citer, trace>>
       ELSE /\ citer < MaxCiter
            /\ citer' = citer + 1
            /\ pc' = "ask"
            /\ trace' = <<>>
            /\ UNCHANGED exitPath
    /\ UNCHANGED calls
    /\ UNCHANGED <<sampler, args, optimizer, callback, cbi, cevals, X, fitvals,
                   countiter, stopped, exc, excAt, tellsOk, nevals,
                   forceCalls, flushAdds, flushModulo, finalDisps>>

\* line 176: X = self.ask()
Ask ==
    /\ pc = "ask"
    /\ \E b \in AskResults(askMode) : X' = b
    /\ trace' = Append(trace, "ask")
    /\ pc' = "evaluate"
    /\ askCalls' = askCalls + 1
    /\ UNCHANGED <<stopCalls, tellCalls, toldX, toldF>>
    /\ UNCHANGED <<sampler, args, optimizer, callback, cbi, citer, cevals, fitvals,
                   countiter, stopped, exc, excAt, exitPath, tellsOk,
                   nevals, forceCalls, flushAdds, flushModulo, finalDisps>>

\* the fitness values in the reverse order of the batch
FitnessValuesReversed(batch) ==
    [i \in 1..Len(batch) |-> objective_fct(batch[Len(batch) + 1 - i])]

\* line 177: [objective_fct(x, *args) for x in X]
FitnessValues(batch) == [i \in 1..Len(batch) |-> objective_fct(batch[i])]

\* the evaluation with an exception of the objective function caught:
\* the failure is noted and the iteration goes on with tell
EvaluateCatching ==
    /\ pc = "evaluate"
    /\ \/ /\ fitvals' = FitnessValues(X)
          /\ cevals' = cevals + Len(fitvals')
          /\ nevals' = nevals + Len(X)
          /\ pc' = "tell"
          /\ UNCHANGED <<exc, excAt>>
       \/ \E k \in 1..Len(X) :
          /\ nevals' = nevals + k
          /\ exc' = "ObjectiveError"
          /\ excAt' = "objective_fct"
          /\ pc' = "tell"
          /\ UNCHANGED <<fitvals, cevals>>
    /\ UNCHANGED calls
    /\ UNCHANGED <<sampler, args, optimizer, callback, cbi, citer, X, countiter,
                   stopped, exitPath, trace, tellsOk, forceCalls,
                   flushAdds, flushModulo, finalDisps>>

\* lines 177-178: the batch is evaluated in order and counted; an
\* exception of the objective function at the k-th candidate leaves
\* optimize
Evaluate ==
    /\ pc = "evaluate"
    /\ \/ /\ fitvals' = FitnessValues(X)
          /\ cevals' = cevals + Len(fitvals')
          /\ nevals' = nevals + Len(X)
          /\ pc' = "tell"
          /\ UNCHANGED <<exc, excAt>>
       \/ \E k \in 1..Len(X) :
          /\ nevals' = nevals + k
          /\ Raise("ObjectiveError", "objective_fct")
          /\ UNCHANGED <<fitvals, cevals>>
    /\ UNCHANGED calls
    /\ UNCHANGED <<sampler, args, optimizer, callback, cbi, citer, X, countiter,
                   stopped, exitPath, trace, tellsOk, forceCalls,
                   flushAdds, flushModulo, finalDisps>>

\* lines 80-85, OOOptimizer.tell: the counter is incremented, then
\* NotImplementedError is raised
BaseTell(ci) == [countiter |-> ci + 1, exc |-> "NotImplementedError"]

\* tell of a concrete optimizer: updates its state and counts the call
OverrideTell(ci) == [countiter |-> ci + 1, exc |-> "none"]

\* line 179: self.tell(X, fitvals)
Tell ==
    /\ pc = "tell"
    /\ LET r == IF tellKind = "base" THEN BaseTell(countiter)
                ELSE OverrideTell(countiter)
       IN /\ countiter' = r.countiter
          /\ IF r.exc = "none"
             THEN /\ tellsOk' = tellsOk + 1
                  /\ trace' = Append(trace, "tell")
                  /\ pc' = "disp"
                  /\ UNCHANGED <<exc, excAt>>
             ELSE /\ Raise(r.exc, "tell")
                  /\ UNCHANGED <<tellsOk, trace>>
    /\ tellCalls' = tellCalls + 1
    /\ toldX' = X
    /\ toldF' = fitvals
    /\ UNCHANGED <<stopCalls, askCalls>>
    /\ UNCHANGED <<sampler, args, optimizer, callback, cbi, citer, cevals, X,
                   fitvals, stopped, exitPath, nevals, forceCalls,
                   flushAdds, flushModulo, finalDisps>>

\* line 180: self.disp(verb_disp)
Disp ==
    /\ pc = "disp"
    /\ trace' = Append(trace, "disp")
    /\ pc' = "callbacks"
    /\ cbi' = 1
    /\ UNCHANGED calls
    /\ UNCHANGED <<sampler, args, optimizer, callback, citer, cevals, X, fitvals,
                   countiter, stopped, exc, excAt, exitPath, tellsOk,
                   nevals, forceCalls, flushAdds, flushModulo, finalDisps>>

\* lines 336-343: logger.add(optim) called as a callback, without the
\* keyword modulo; BaseDataLogger.add raises NotImplementedError
LoggerAdd(lg) ==
    IF lg.kind = "base" THEN "NotImplementedError" ELSE "none"

\* lines 181-182: one step of `for f in callback: f is None or f(self)'
Callback ==
    /\ pc = "callbacks"
    /\ IF cbi > Len(callback)
       THEN /\ pc' = "while"
            /\ cbi' = 1
            /\ UNCHANGED <<trace, exc, excAt>>
       ELSE LET f == callback[cbi]
            IN IF f = "None"
               THEN /\ cbi' = cbi + 1
                    /\ UNCHANGED <<pc, trace, exc, excAt>>
               ELSE IF f = "logger.add" /\ LoggerAdd(logger) # "none"
               THEN /\ Raise(LoggerAdd(logger), "callback")
                    /\ UNCHANGED <<cbi, trace>>
               ELSE /\ trace' = Append(trace, f)
                    /\ cbi' = cbi + 1
                    /\ UNCHANGED <<pc, exc, excAt>>
    /\ UNCHANGED calls
    /\ UNCHANGED <<sampler, args, optimizer, callback, citer, cevals, X, fitvals,
                   countiter, stopped, exitPath, tellsOk, nevals,
                   forceCalls, flushAdds, flushModulo, finalDisps>>

\* _force_final_logging passing the logger's modulo attribute as it is,
\* without bool()
ForceFinalLoggingRawModulo(lg) ==
    IF LoggerAttrMissing(lg)
    THEN [exc |-> "AttributeError", attempted |-> FALSE, added |-> FALSE,
          modulo |-> None]
    ELSE IF lg.kind = "None"
    THEN [exc |-> "none", attempted |-> FALSE, added |-> FALSE,
          modulo |-> None]
    ELSE LET modulo == IF lg.hasModulo THEN lg.modulo ELSE 1
         IN CASE lg.kind = "noAdd" ->
                   [exc |-> "none", attempted |-> FALSE, added |-> FALSE,
                    modulo |-> modulo]
              [] lg.kind = "noKw" ->
                   [exc |-> "none", attempted |-> TRUE, added |-> FALSE,
                    modulo |-> modulo]
              [] lg.kind = "base" ->
                   [exc |-> "NotImplementedError", attempted |-> TRUE,
                    added |-> FALSE, modulo |-> modulo]
              [] OTHER ->
                   [exc |-> "none", attempted |-> TRUE, added |-> TRUE,
                    modulo |-> modulo]

\* lines 220-240, _force_final_logging as a function of the logger:
\*   exc       the exception that leaves it ("none" when it returns)
\*   attempted whether logger.add(self, modulo=modulo) was called
\*   added     whether that call returned normally
\*   modulo    the keyword argument of that call
ForceFinalLogging(lg) ==
    IF LoggerAttrMissing(lg)
    THEN [exc |-> "AttributeError", attempted |-> FALSE, added |-> FALSE,
          modulo |-> None]
    ELSE IF lg.kind = "None"
    THEN [exc |-> "none", attempted |-> FALSE, added |-> FALSE,
          modulo |-> None]
    ELSE LET modulo == IF lg.hasModulo THEN Bool(lg.modulo) ELSE 1
         IN CASE lg.kind = "noAdd" ->
                   [exc |-> "none", attempted |-> FALSE, added |-> FALSE,
                    modulo |-> modulo]
              [] lg.kind = "noKw" ->
                   [exc |-> "none", attempted |-> TRUE, added |-> FALSE,
                    modulo |-> modulo]
              [] lg.kind = "base" ->
                   [exc |-> "NotImplementedError", attempted |-> TRUE,
                    added |-> FALSE, modulo |-> modulo]
              [] OTHER ->
                   [exc |-> "none", attempted |-> TRUE, added |-> TRUE,
                    modulo |-> modulo]

\* line 185: self._force_final_logging()
FinalLogging ==
    /\ pc = "final"
    /\ forceCalls' = forceCalls + 1
    /\ LET r == ForceFinalLogging(logger)
       IN /\ flushAdds' = IF r.added THEN flushAdds + 1 ELSE flushAdds
          /\ flushModulo' = IF r.attempted THEN r.modulo ELSE flushModulo
          /\ IF r.exc = "none"
             THEN /\ pc' = "output"
                  /\ UNCHANGED <<exc, excAt>>
             ELSE Raise(r.exc, "_force_final_logging")
    /\ UNCHANGED calls
    /\ UNCHANGED <<sampler, args, optimizer, callback, cbi, citer, cevals, X,
                   fitvals, countiter, stopped, exitPath, trace, tellsOk,
                   nevals, finalDisps>>

\* lines 187-191: the final output when verb_disp is truthy: disp(1),
\* then stop() and result are read for the report
FinalOutput ==
    /\ pc = "output"
    /\ finalDisps' = IF verb_disp # 0 THEN finalDisps + 1 ELSE finalDisps
    /\ pc' = "return"
    /\ stopCalls' = IF verb_disp # 0 THEN stopCalls + 1 ELSE stopCalls
    /\ UNCHANGED <<askCalls, tellCalls, toldX, toldF>>
    /\ UNCHANGED <<sampler, args, optimizer, callback, cbi, citer, cevals, X,
                   fitvals, countiter, stopped, exc, excAt, exitPath,
                   trace, tellsOk, nevals, forceCalls, flushAdds,
                   flushModulo>>

\* line 193: return self
Return ==
    /\ pc = "return"
    /\ pc' = "returned"
    /\ UNCHANGED calls
    /\ UNCHANGED <<sampler, args, optimizer, callback, cbi, citer, cevals, X,
                   fitvals, countiter, stopped, exc, excAt, exitPath,
                   trace, tellsOk, nevals, forceCalls, flushAdds,
                   flushModulo, finalDisps>>

Next ==
    \/ Setup
    \/ WhileTest
    \/ BudgetCheck
    \/ Ask
    \/ Evaluate
    \/ Tell
    \/ Disp
    \/ Callback
    \/ FinalLogging
    \/ FinalOutput
    \/ Return

Spec == Init /\ [][Next]_vars

\* --------------------------------------------------------- sampling model
\* values a recombination weight takes: non-positive 0, positive 1 and 2
WeightVals == {0, 1, 2}

\* recombination weights are passed best first: no entry exceeds the
\* one before it
NonIncreasing(w) == \A i \in 1..(Len(w) - 1) : w[i] >= w[i + 1]

\* the weights sequences passed to parameters
WeightSeqs ==
    {w \in UNION {[1..n -> WeightVals] : n \in 1..MaxLen} : NonIncreasing(w)}

\* exact arithmetic: a rational is <<numerator, denominator>> in lowest
\* terms with a positive denominator
RECURSIVE Gcd(_, _)
Gcd(a, b) == IF b = 0 THEN a ELSE Gcd(b, a % b)

Abs(x) == IF x < 0 THEN -x ELSE x

Rat(n, d) ==
    LET sg == IF d < 0 THEN -1 ELSE 1
        g == Gcd(Abs(n), Abs(d))
    IN <<(sg * n) \div g, (sg * d) \div g>>

RInt(n) == <<n, 1>>
RAdd(p, q) == Rat(p[1] * q[2] + q[1] * p[2], p[2] * q[2])
RSub(p, q) == Rat(p[1] * q[2] - q[1] * p[2], p[2] * q[2])
RMul(p, q) == Rat(p[1] * q[1], p[2] * q[2])
RDiv(p, q) == Rat(p[1] * q[2], p[2] * q[1])
RLeq(p, q) == p[1] * q[2] <= q[1] * p[2]

\* np.min((p, q))
RMin(p, q) == IF RLeq(p, q) THEN p ELSE q

\* the builtin sum over a sequence of integers
RECURSIVE Sum(_)
Sum(w) == IF w = <<>> THEN 0 ELSE Head(w) + Sum(Tail(w))

\* w**2, elementwise
Squares(w) == [i \in 1..Len(w) |-> w[i] * w[i]]

IsPositive(x) == x > 0

\* line 273: np.array([w for w in weights if w > 0])
PositiveWeights(weights) == SelectSeq(weights, IsPositive)

\* lam taken as the number of positive weights only
LamPositiveOnly(weights) == Len(PositiveWeights(weights))

\* line 272: lam = len(weights)
Lam(weights) == Len(weights)

\* line 274: mueff = sum(w)**2 / sum(w**2)
Mueff(w) == Rat(Sum(w) * Sum(w), Sum(Squares(w)))

\* lines 277-278: np.min((1, lam / 6)) * 2 / ((dimension + 1.3)**2 + mueff)
C1(lam, dim, mueff) ==
    LET d13 == RAdd(RInt(dim), Rat(13, 10))
    IN RDiv(RMul(RMin(RInt(1), Rat(lam, 6)), RInt(2)),
            RAdd(RMul(d13, d13), mueff))

\* lines 281-283: np.min((1 - c1, 2 * (mueff - 2 + 1 / mueff) /
\*                        ((dimension + 2)**2 + 2 * mueff / 2)))
Cmu(c1, dim, mueff) ==
    RMin(RSub(RInt(1), c1),
         RDiv(RMul(RInt(2),
                   RAdd(RSub(mueff, RInt(2)), RDiv(RInt(1), mueff))),
              RAdd(RInt((dim + 2) * (dim + 2)),
                   RDiv(RMul(RInt(2), mueff), RInt(2)))))

\* lines 271-285: the mapping computed from weights; without a positive
\* weight sum(w)**2 / sum(w**2) is 0 / 0 and raises ZeroDivisionError
ComputeParameters(weights, dim) ==
    LET w == PositiveWeights(weights)
    IN IF w = <<>>
       THEN [exc |-> "ZeroDivisionError", params |-> NoParams]
       ELSE LET mueff == Mueff(w)
                c1 == C1(Lam(weights), dim, mueff)
            IN [exc |-> "none",
                params |-> [set |-> TRUE, c1 |-> c1,
                            cmu |-> Cmu(c1, dim, mueff),
                            of |-> weights]]

\* ComputeParameters tabulated once over the dimensions and weights
\* sequences (@@ makes the table explicit)
ParametersTable ==
    [k \in (1..MaxDim) \X WeightSeqs |-> ComputeParameters(k[2], k[1])]
        @@ <<>>

\* line 267: np.all(self.weights == weights) for one-dimensional
\* arrays.  Equal lengths compare elementwise; an array of one element is
\* broadcast against the other; other lengths do not broadcast
\* ("mismatch").
ArraysAllEqual(a, b) ==
    IF Len(a) = Len(b)
    THEN IF \A i \in 1..Len(a) : a[i] = b[i] THEN "True" ELSE "False"
    ELSE IF Len(a) = 1
    THEN IF \A i \in 1..Len(b) : a[1] = b[i] THEN "True" ELSE "False"
    ELSE IF Len(b) = 1
    THEN IF \A i \in 1..Len(a) : a[i] = b[1] THEN "True" ELSE "False"
    ELSE "mismatch"

\* what the comparison of arrays that do not broadcast does: older numpy
\* versions give False (with a warning), newer ones raise ValueError
MismatchOutcomes == {"False", "ValueError"}

\* lines 266-270: the outcomes of the cache test: "hit" returns
\* self._parameters, "miss" goes on to compute, "ValueError" leaves
\* parameters.  A missing attribute weights or _parameters raises
\* AttributeError, which is caught: a miss.
CacheTest(cached, params, weights) ==
    IF cached = <<>> THEN {"miss"}
    ELSE LET eq == ArraysAllEqual(cached, weights)
         IN IF eq = "True"
            THEN IF params.set THEN {"hit"} ELSE {"miss"}
            ELSE IF eq = "False" THEN {"miss"}
            ELSE {IF o = "False" THEN "miss" ELSE "ValueError" :
                     o \in MismatchOutcomes}

\* the optimizer variables while only the sampling model is exercised
OptimizerIdle ==
    /\ pc = "idle"
    /\ maxfun = Infinity
    /\ iterations = None
    /\ min_iterations = 1
    /\ verb_disp = 0
    /\ callbackArg = [kind |-> "None", items |-> <<>>]
    /\ logger = [kind |-> "absent", hasModulo |-> FALSE, modulo |-> 0]
    /\ tellKind = "override"
    /\ stopMode = "free"
    /\ stopK = 0
    /\ askMode = "free"
    /\ callback = <<>>
    /\ cbi = 1
    /\ citer = 0
    /\ cevals = 0
    /\ X = <<>>
    /\ fitvals = <<>>
    /\ countiter = 0
    /\ stopped = FALSE
    /\ exc = "none"
    /\ excAt = "none"
    /\ exitPath = "none"
    /\ trace = <<>>
    /\ tellsOk = 0
    /\ nevals = 0
    /\ forceCalls = 0
    /\ flushAdds = 0
    /\ flushModulo = None
    /\ finalDisps = 0
    /\ stopCalls = 0
    /\ askCalls = 0
    /\ tellCalls = 0
    /\ toldX = <<>>
    /\ toldF = <<>>

\* a sampling model of some dimension, parameters not yet called
InitParams ==
    /\ dimension \in 1..MaxDim
    /\ SamplerFresh
    /\ OptimizerIdle

\* lines 262-285: one call parameters(weights)
Parameters ==
    /\ pc = "idle"
    /\ \E weights \in WeightSeqs : \E t \in CacheTest(sWeights, sParams, weights) :
         /\ sArg' = weights
         /\ sSame' = (sWeights = weights)
         /\ IF t = "hit"
            THEN /\ sRet' = sParams
                 /\ sExc' = "none"
                 /\ sComputed' = FALSE
                 /\ UNCHANGED <<sWeights, sParams>>
            ELSE IF t = "ValueError"
            THEN /\ sRet' = NoParams
                 /\ sExc' = "ValueError"
                 /\ sComputed' = FALSE
                 /\ UNCHANGED <<sWeights, sParams>>
            ELSE LET r == ParametersTable[<<dimension, weights>>]
                 IN /\ sWeights' = weights
                    /\ sExc' = r.exc
                    /\ IF r.exc = "none"
                       THEN /\ sParams' = r.params
                            /\ sRet' = r.params
                            /\ sComputed' = TRUE
                       ELSE /\ sRet' = NoParams
                            /\ sComputed' = FALSE
                            /\ UNCHANGED sParams
    /\ UNCHANGED <<dimension, pc, calls, args, optimizer, callback, cbi, citer,
                   cevals, X, fitvals, countiter, stopped, exc, excAt,
                   exitPath, trace, tellsOk, nevals, forceCalls, flushAdds,
                   flushModulo, finalDisps>>

NextParams == Parameters

SpecParams == InitParams /\ [][NextParams]_vars

\* ------------------------------------------------------------ properties
\* optimize was left by an exception raised at `where'
RaisedAt(where) == pc = "raised" /\ excAt = where

\* the callback argument is the list [a, b]
CallbackIsAB ==
    callbackArg = [kind |-> "iterable", items |-> <<"a", "b">>]

\* the callback argument is the list [a, None, b]
CallbackHasNone ==
    callbackArg = [kind |-> "iterable", items |-> <<"a", "None", "b">>]

\* the callback argument is malformed: neither callable nor iterable, or
\* an iterable with a non-callable element
CallbackMalformed ==
    \/ callbackArg.kind = "other"
    \/ \E i \in 1..Len(callbackArg.items) : callbackArg.items[i] = "five"

\* the logger is an object whose add(optim) works as a callback
LoggerAttached == logger.kind \in {"ok", "noKw"}

\* C1: the evaluations counted during one call of optimize (cevals, and
\* the objective calls actually made) never exceed maxfun, whatever the
\* size of the batches ask() returns.
C1_EvalsWithinMaxfun ==
    maxfun # Infinity => (cevals <= maxfun /\ nevals <= maxfun)

\* C2: with iterations = N given (N = 0 included) and min_iterations <= N,
\* the number of iterations performed, citer, never exceeds N, whatever
\* stop() returns.
C2_IterationsCeiling ==
    (iterations # None /\ min_iterations <= iterations)
        => citer <= iterations

\* C3: whenever optimize has returned, on whichever exit path of the loop
\* (stop() non-empty, maxfun reached, iterations reached), the forced
\* final flush _force_final_logging was performed.
C3_FlushOnEveryExit ==
    pc = "returned" => forceCalls = 1

\* C4: without a logger attribute on the instance the forced final flush
\* is a no-op: once the loop has ended, optimize is never left by an
\* exception.
C4_NoLoggerNeverRaises ==
    (logger.kind = "absent" /\ exitPath # "none") => pc # "raised"

\* C5: the loop never ends on stop() alone while citer < min_iterations;
\* so with stop() always non-empty at least min_iterations iterations run
\* unless a budget ceiling ends the loop first.
C5_MinIterationsFloor ==
    exitPath = "stop" => citer >= min_iterations

\* C5 witness: stop() non-empty at every call, and the loop left on the
\* loop condition after the two iterations min_iterations asks for
C5_Witness ==
    /\ stopMode = "always"
    /\ exitPath = "stop"
    /\ min_iterations = 2
    /\ citer = 2

\* C6: a None entry in the callback list is skipped without error:
\* callback=[a, None, b] raises nothing while the callback list is set up.
C6_NoneEntrySkipped ==
    CallbackHasNone => ~RaisedAt("_prepare_callback_list")

\* C7: a malformed callback argument (neither callable nor iterable, or
\* an iterable with a non-callable element) makes optimize fail with
\* ValueError in both cases, with or without a logger, before any
\* iteration starts.
C7_MalformedCallbackValueError ==
    (CallbackMalformed /\ pc # "call" /\ exc # "AssertionError")
        => /\ RaisedAt("_prepare_callback_list")
           /\ exc = "ValueError"
           /\ citer = 0
           /\ trace = <<>>

\* C8: with a logger attribute on the instance, no failure of the logger
\* during the forced final flush leaves _force_final_logging.
C8_FlushFailuresSwallowed ==
    logger.kind # "absent" => ~RaisedAt("_force_final_logging")

\* C9: with an attached logger, a completed iteration has called ask,
\* tell, disp, then the caller's callbacks in list order, then the
\* logger's add, each exactly once: a, b, add for callback=[a, b]; add
\* alone for callback=None; a, add for a single callable a.
C9_DispatchOrder ==
    (pc = "while" /\ citer > 0 /\ LoggerAttached)
        => /\ CallbackIsAB =>
                trace = <<"ask", "tell", "disp", "a", "b", "logger.add">>
           /\ callbackArg.kind = "None" =>
                trace = <<"ask", "tell", "disp", "logger.add">>
           /\ callbackArg.kind = "callable" =>
                trace = <<"ask", "tell", "disp", "a", "logger.add">>

\* C9 witness: the second iteration of a run with callback=[a, b] and a
\* logger is complete
C9_Witness ==
    /\ pc = "while"
    /\ citer = 2
    /\ CallbackIsAB
    /\ logger.kind = "ok"
    /\ trace = <<"ask", "tell", "disp", "a", "b", "logger.add">>

\* C11: a call parameters(w2) that returns, made when the cached weights
\* are a different sequence than w2 (other values or another length),
\* computes the mapping from w2 and replaces the cached weights and
\* mapping; a call with the cached sequence returns the cached mapping
\* without computing.
C11_CacheFollowsWeights ==
    (sArg # <<>> /\ sExc = "none")
        => /\ ~sSame =>
                (sComputed /\ sWeights = sArg /\ sRet.of = sArg
                   /\ sParams = sRet)
           /\ (sSame /\ sRet.set) => (~sComputed /\ sRet.of = sArg)

\* C14: optimize called with iterations given and iterations <
\* min_iterations fails with AssertionError before anything else is done:
\* no stop, ask, objective, tell, callback, logger or disp call, and
\* countiter is unchanged.
C14_PreconditionFailsFirst ==
    (iterations # None /\ iterations < min_iterations /\ pc # "call")
        => /\ pc = "raised"
           /\ exc = "AssertionError"
           /\ excAt = "assert"
           /\ citer = 0 /\ cevals = 0 /\ nevals = 0
           /\ stopCalls = 0 /\ askCalls = 0 /\ tellCalls = 0
           /\ trace = <<>>
           /\ callback = <<>>
           /\ countiter = 0
           /\ forceCalls = 0 /\ flushAdds = 0 /\ finalDisps = 0

\* C14 witness: optimize(f, iterations=1, min_iterations=2) has failed
C14_Witness ==
    /\ iterations = 1
    /\ min_iterations = 2
    /\ pc = "raised"
    /\ exc = "AssertionError"

\* C15: the budgets are hard ceilings: an iteration is started (ask is
\* about to be called) only if, before it, cevals < maxfun and, with
\* iterations given, citer < iterations, whatever min_iterations and
\* stop() say; and maxfun = 0 gives no ask, no evaluation and no tell.
C15_BudgetsAreHardCeilings ==
    /\ pc = "ask"
         => /\ maxfun = Infinity \/ cevals < maxfun
            /\ iterations = None \/ citer - 1 < iterations
    /\ maxfun = 0
         => (citer = 0 /\ askCalls = 0 /\ nevals = 0 /\ tellCalls = 0)

\* C16: within optimize ask and tell alternate, ask first: at any time
\* the calls of ask are as many as those of tell or one more, ask is
\* called only when they are as many and tell only when ask is one
\* ahead; tell receives the batch X of the ask before it and the fitness
\* values objective_fct(X[i]) in the same order and number; and cevals is
\* the sum of len(X) over the batches evaluated.
C16_AskTellAlternate ==
    /\ tellCalls <= askCalls
    /\ askCalls <= tellCalls + 1
    /\ pc = "ask" => askCalls = tellCalls
    /\ pc = "tell" => askCalls = tellCalls + 1
    /\ tellCalls > 0
         => /\ Len(toldF) = Len(toldX)
            /\ \A i \in 1..Len(toldX) : toldF[i] = objective_fct(toldX[i])
    /\ pc = "disp" => toldX = X
    /\ exc # "ObjectiveError" => cevals = nevals

\* C16 witness: the second tell has received the batch [1, 2] of the
\* second ask with the fitness values [1, 4]
C16_Witness ==
    /\ pc = "disp"
    /\ askCalls = 2
    /\ tellCalls = 2
    /\ X = <<1, 2>>
    /\ toldX = <<1, 2>>
    /\ toldF = <<1, 4>>

\* C17: an exception of the objective function leaves optimize: tell is
\* not called for that iteration and countiter keeps its value, and no
\* disp, callback, logger add, forced final flush or final output follows.
C17_ObjectiveErrorPropagates ==
    exc = "ObjectiveError"
        => /\ pc = "raised"
           /\ excAt = "objective_fct"
           /\ askCalls = citer
           /\ tellCalls = citer - 1
           /\ countiter = citer - 1
           /\ trace = <<"ask">>
           /\ forceCalls = 0 /\ flushAdds = 0 /\ finalDisps = 0

\* C17 witness: the objective function has raised on the second candidate
\* of the batch of the second iteration
C17_Witness ==
    /\ pc = "raised"
    /\ exc = "ObjectiveError"
    /\ citer = 2
    /\ countiter = 1
    /\ nevals = cevals + 2

\* C18: with verb_disp truthy, whenever optimize has returned, on
\* whichever exit path of the loop, the final disp(1) was performed once.
C18_FinalDispOnEveryExit ==
    (pc = "returned" /\ verb_disp # 0) => finalDisps = 1

\* C19: with a logger that has a method add, the forced final flush
\* calls logger.add(self, modulo=m) once, m being True (1) when the
\* logger's modulo attribute is truthy, False (0) when it is 0, and 1 when
\* the logger has no modulo attribute; the logger's modulo attribute is
\* left as it was.
C19_ForcedFlushModulo ==
    [][(pc = "final" /\ logger.kind \in {"ok", "noKw", "base"})
          => /\ logger' = logger
             /\ forceCalls = 0 /\ forceCalls' = 1
             /\ flushAdds = 0
             /\ flushModulo = None
             /\ flushModulo' = (IF logger.hasModulo
                                THEN (IF logger.modulo = 0 THEN 0 ELSE 1)
                                ELSE 1)
             /\ logger.kind = "ok" => flushAdds' = 1]_vars

\* C19 witness: a logger with modulo = 2 has been flushed with
\* modulo=True
C19_Witness ==
    /\ pc = "output"
    /\ logger = [kind |-> "ok", hasModulo |-> TRUE, modulo |-> 2]
    /\ forceCalls = 1
    /\ flushAdds = 1
    /\ flushModulo = 1

\* the stub optimizer: stop() non-empty exactly when countiter >= K, tell
\* counting its calls, and the budgets left at their defaults
ThresholdStub ==
    /\ stopMode = "countiter"
    /\ tellKind = "override"
    /\ maxfun = Infinity
    /\ iterations = None

\* C12: for the stub optimizer the loop is never ended by a budget and is
\* left after exactly max(K, min_iterations) iterations; when ask()
\* returns two candidates at every call that is 2 * max(K, min_iterations)
\* evaluations: 3 iterations and 6 evaluations for K = 3,
\* min_iterations = 1.
C12_ThresholdStubIterations ==
    ThresholdStub
        => /\ exitPath \in {"none", "stop"}
           /\ citer <= (IF stopK > min_iterations THEN stopK
                        ELSE min_iterations)
           /\ exitPath = "stop"
                => /\ citer = (IF stopK > min_iterations THEN stopK
                               ELSE min_iterations)
                   /\ askMode = "pair" => cevals = 2 * citer
                   /\ (stopK = 3 /\ min_iterations = 1 /\ askMode = "pair")
                        => (citer = 3 /\ cevals = 6 /\ nevals = 6)

\* C12 witness: the scenario K = 3, min_iterations = 1, two candidates
\* per ask, has left the loop after 3 iterations and 6 evaluations
C12_Witness ==
    /\ ThresholdStub
    /\ stopK = 3
    /\ min_iterations = 1
    /\ askMode = "pair"
    /\ exitPath = "stop"
    /\ citer = 3
    /\ cevals = 6

\* sum of f(weights[i]) over the entries of weights
RECURSIVE SumOver(_, _, _)
SumOver(weights, i, sq) ==
    IF i = 0 THEN 0
    ELSE SumOver(weights, i - 1, sq)
         + (IF weights[i] > 0
            THEN (IF sq THEN weights[i] * weights[i] ELSE weights[i])
            ELSE 0)

C10_CountiterIsSuccessfulTells ==
    countiter = tellsOk
====
